---- MODULE Spec2Model ----
(***************************************************************************)
(* The directed graph engine of src/directed.go, instantiated as           *)
(* Graph[int, int] with the predefined hashing function IntHash            *)
(* (src/graph.go).  Go maps are functions whose DOMAIN is the key set.     *)
(***************************************************************************)
EXTENDS Integers, Sequences, FiniteSets, TLC

\* ---------------------------------------------------------------- bounds
\* The most edges the graph is let to hold.
MaxEdges == 3

\* The vertex values (T = K = int) and the edge weights offered to the graph.
Hashes == {1, 2, 3}
Weights == {0, 1}

\* --------------------------------------------------------------- errors
\* directed.go builds its errors with fmt.Errorf (could not find source vertex,
\* an edge ... already exists, ... would introduce a cycle); each kind of error
\* is named here by the sentinel of src/graph.go that describes it.
Nil == "nil"
ErrVertexNotFound == "vertex not found"
ErrVertexAlreadyExists == "vertex already exists"
ErrEdgeNotFound == "edge not found"
ErrEdgeAlreadyExists == "edge already exists"
ErrEdgeCreatesCycle == "edge would create a cycle"

VARIABLES
    vertices,   \* d.vertices  map[K]T
    edges,      \* d.edges     map[K]map[K]Edge[T]
    outEdges,   \* d.outEdges  map[K]map[K]Edge[T]
    inEdges,    \* d.inEdges   map[K]map[K]Edge[T]
    isAcyclic,  \* d.properties.isAcyclic
    pc,         \* "idle", or the traversal loop that is running
    op,         \* the last call: its name, arguments and results
    stack,      \* DFSByHash's stack
    queue,      \* BFSByHash's queue
    visited,    \* the running traversal's visited map (its key set)
    calls       \* the hashes the visit callback was invoked with, in order

graph == <<vertices, edges, outEdges, inEdges>>
vars == <<vertices, edges, outEdges, inEdges, isAcyclic, pc, op, stack, queue,
          visited, calls>>

\* ------------------------------------------------------------- helpers
EmptyMap == <<>>

\* m[k] = v on a Go map.
Put(m, k, v) == [x \in (DOMAIN m) \cup {k} |-> IF x = k THEN v ELSE m[x]]

\* len(m[k]) with m[k] the nil map when k is absent.
Inner(m, k) == IF k \in DOMAIN m THEN m[k] ELSE EmptyMap

\* The orders in which `for k := range m` may enumerate the key set S.
RangeOrders(S) ==
    {f \in [1..Cardinality(S) -> S] : \A i, j \in DOMAIN f : i # j => f[i] # f[j]}

IntHash(v) == v

\* What a call returned beside its error: nothing, for the calls that return
\* only an error.
NoRet == [none |-> TRUE]

NoOp == [call |-> "none", sourceHash |-> 0, targetHash |-> 0, weight |-> 0,
         err |-> Nil, stopped |-> FALSE, ret |-> NoRet]

\* The record of a call: which one, its arguments, the error it returned, and
\* whether the visit callback returned true (traversals only).
Call(name, s, t, w, err) ==
    [call |-> name, sourceHash |-> s, targetHash |-> t, weight |-> w,
     err |-> err, stopped |-> FALSE, ret |-> NoRet]

\* The record of a call that returns a value with its error.
CallRet(name, s, t, err, ret) ==
    [call |-> name, sourceHash |-> s, targetHash |-> t, weight |-> 0,
     err |-> err, stopped |-> FALSE, ret |-> ret]

\* A call that runs no traversal: the traversal locals of the call before it
\* are gone, and it returns at once.
NoTraversal ==
    /\ pc' = "idle"
    /\ stack' = <<>>
    /\ queue' = <<>>
    /\ visited' = {}
    /\ calls' = <<>>

\* ----------------------------------------------------------------- Init
Init ==
    /\ vertices = EmptyMap
    /\ edges = EmptyMap
    /\ outEdges = EmptyMap
    /\ inEdges = EmptyMap
    /\ isAcyclic \in BOOLEAN
    /\ pc = "idle"
    /\ op = NoOp
    /\ stack = <<>>
    /\ queue = <<>>
    /\ visited = {}
    /\ calls = <<>>

\* --------------------------------------------------------------- Vertex
\* directed.Vertex: stores the value under its hash, whatever is there.
Vertex(value) ==
    /\ pc = "idle"
    /\ vertices' = Put(vertices, IntHash(value), value)
    /\ op' = Call("Vertex", IntHash(value), 0, 0, Nil)
    /\ NoTraversal
    /\ UNCHANGED <<edges, outEdges, inEdges, isAcyclic>>

\* ----------------------------------------------------------- GetEdge
GetEdgeByHashes(sourceHash, targetHash) ==
    IF sourceHash \notin DOMAIN edges
    THEN [found |-> FALSE]
    ELSE IF targetHash \in DOMAIN edges[sourceHash]
         THEN [found |-> TRUE, edge |-> edges[sourceHash][targetHash]]
         ELSE [found |-> FALSE]

\* ----------------------------------------------------- cycle pre-check
\* Mutant: walks the forward index instead of the reverse one.
predecessorsForward(vertexHash) ==
    IF vertexHash \notin DOMAIN outEdges
    THEN {<<>>}
    ELSE RangeOrders(DOMAIN outEdges[vertexHash])

predecessors(vertexHash) ==
    IF vertexHash \notin DOMAIN inEdges
    THEN {<<>>}
    ELSE RangeOrders(DOMAIN inEdges[vertexHash])

\* The loop of CreatesCycleByHashes from a given stack and visited set: the
\* set of values it can return, one per enumeration order of the maps.
RECURSIVE CycleWalk(_, _, _)
CycleWalk(stk, seen, targetHash) ==
    IF stk = <<>>
    THEN {FALSE}
    ELSE LET currentHash == stk[Len(stk)]
             rest == SubSeq(stk, 1, Len(stk) - 1)
         IN  IF currentHash \in seen
             THEN CycleWalk(rest, seen, targetHash)
             ELSE IF currentHash = targetHash
                  THEN {TRUE}
                  ELSE UNION {CycleWalk(rest \o p, seen \cup {currentHash}, targetHash) :
                                p \in predecessors(currentHash)}

\* Mutant: looks only for the reverse edge, not for a longer path.
CreatesCycleDirectOnly(sourceHash, targetHash) ==
    IF sourceHash \notin DOMAIN vertices \/ targetHash \notin DOMAIN vertices
    THEN {[createsCycle |-> FALSE, err |-> ErrVertexNotFound]}
    ELSE {[createsCycle |-> (sourceHash = targetHash
                              \/ GetEdgeByHashes(targetHash, sourceHash).found),
           err |-> Nil]}

\* The (bool, error) pairs CreatesCycleByHashes can return.
CreatesCycleByHashes(sourceHash, targetHash) ==
    IF sourceHash \notin DOMAIN vertices \/ targetHash \notin DOMAIN vertices
    THEN {[createsCycle |-> FALSE, err |-> ErrVertexNotFound]}
    ELSE IF sourceHash = targetHash
         THEN {[createsCycle |-> TRUE, err |-> Nil]}
         ELSE {[createsCycle |-> b, err |-> Nil] :
                 b \in CycleWalk(<<sourceHash>>, {}, targetHash)}

\* ------------------------------------------------------------- addEdge
PutEdge(m, a, b, edge) == Put(m, a, Put(Inner(m, a), b, edge))

\* Mutant: registers the reverse entry under the source, not the target.
addEdgeNoSwap(sourceHash, targetHash, edge) ==
    /\ edges' = PutEdge(edges, sourceHash, targetHash, edge)
    /\ outEdges' = PutEdge(outEdges, sourceHash, targetHash, edge)
    /\ inEdges' = PutEdge(inEdges, sourceHash, targetHash, edge)

\* Mutant: leaves the forward index out.
addEdgeNoForward(sourceHash, targetHash, edge) ==
    /\ edges' = PutEdge(edges, sourceHash, targetHash, edge)
    /\ inEdges' = PutEdge(inEdges, targetHash, sourceHash, edge)
    /\ UNCHANGED outEdges

addEdge(sourceHash, targetHash, edge) ==
    /\ edges' = PutEdge(edges, sourceHash, targetHash, edge)
    /\ outEdges' = PutEdge(outEdges, sourceHash, targetHash, edge)
    /\ inEdges' = PutEdge(inEdges, targetHash, sourceHash, edge)

\* The ordered pairs a map[K]map[K]Edge holds an edge for.
Pairs(m) == UNION {{<<s, t>> : t \in DOMAIN m[s]} : s \in DOMAIN m}

Size == Cardinality(Pairs(edges))

\* ------------------------------------------------ WeightedEdgeByHashes
\* Mutant: the forward index is written before the cycle check refuses.
EdgeFailsPartial(sourceHash, targetHash, weight, err) ==
    /\ op' = Call("AddEdge", sourceHash, targetHash, weight, err)
    /\ IF err = ErrEdgeCreatesCycle
       THEN /\ outEdges' = PutEdge(outEdges, sourceHash, targetHash,
                                   [Source |-> vertices[sourceHash],
                                    Target |-> vertices[targetHash],
                                    Weight |-> weight])
            /\ UNCHANGED <<edges, inEdges>>
       ELSE UNCHANGED <<edges, outEdges, inEdges>>

\* A return with an error: nothing is written.
EdgeFails(sourceHash, targetHash, weight, err) ==
    /\ op' = Call("AddEdge", sourceHash, targetHash, weight, err)
    /\ UNCHANGED <<edges, outEdges, inEdges>>

\* The edge is built from the stored vertices and handed to addEdge.
EdgeInserts(sourceHash, targetHash, weight) ==
    /\ Size < MaxEdges
    /\ addEdge(sourceHash, targetHash,
               [Source |-> vertices[sourceHash], Target |-> vertices[targetHash],
                Weight |-> weight])
    /\ op' = Call("AddEdge", sourceHash, targetHash, weight, Nil)

\* Mutant: the cycle check runs whatever the graph was declared to be.
CheckCycleAlways(sourceHash, targetHash, weight) ==
    \E r \in CreatesCycleByHashes(sourceHash, targetHash) :
        IF r.err # Nil
        THEN EdgeFails(sourceHash, targetHash, weight, r.err)
        ELSE IF r.createsCycle
        THEN EdgeFails(sourceHash, targetHash, weight, ErrEdgeCreatesCycle)
        ELSE EdgeInserts(sourceHash, targetHash, weight)

\* The cycle check of an acyclic graph, then the insertion.
CheckCycleAndInsert(sourceHash, targetHash, weight) ==
    IF isAcyclic
    THEN \E r \in CreatesCycleByHashes(sourceHash, targetHash) :
             IF r.err # Nil
             THEN EdgeFails(sourceHash, targetHash, weight, r.err)
             ELSE IF r.createsCycle
             THEN EdgeFails(sourceHash, targetHash, weight, ErrEdgeCreatesCycle)
             ELSE EdgeInserts(sourceHash, targetHash, weight)
    ELSE EdgeInserts(sourceHash, targetHash, weight)

\* Mutant: no check for an edge already stored.
WeightedEdgeOverwrites(sourceHash, targetHash, weight) ==
    /\ pc = "idle"
    /\ IF sourceHash \notin DOMAIN vertices
       THEN EdgeFails(sourceHash, targetHash, weight, ErrVertexNotFound)
       ELSE IF targetHash \notin DOMAIN vertices
       THEN EdgeFails(sourceHash, targetHash, weight, ErrVertexNotFound)
       ELSE CheckCycleAndInsert(sourceHash, targetHash, weight)
    /\ NoTraversal
    /\ UNCHANGED <<vertices, isAcyclic>>

\* Mutant: an acyclic graph refuses a self-loop before it looks up the vertex.
WeightedEdgeSelfLoopFirst(sourceHash, targetHash, weight) ==
    /\ pc = "idle"
    /\ IF isAcyclic /\ sourceHash = targetHash
       THEN EdgeFails(sourceHash, targetHash, weight, ErrEdgeCreatesCycle)
       ELSE IF sourceHash \notin DOMAIN vertices
       THEN EdgeFails(sourceHash, targetHash, weight, ErrVertexNotFound)
       ELSE IF targetHash \notin DOMAIN vertices
       THEN EdgeFails(sourceHash, targetHash, weight, ErrVertexNotFound)
       ELSE IF GetEdgeByHashes(sourceHash, targetHash).found
       THEN EdgeFails(sourceHash, targetHash, weight, ErrEdgeAlreadyExists)
       ELSE CheckCycleAndInsert(sourceHash, targetHash, weight)
    /\ NoTraversal
    /\ UNCHANGED <<vertices, isAcyclic>>

\* Mutant: the target vertex is not looked up; a missing one reads as the
\* zero value.
WeightedEdgeNoTargetLookup(sourceHash, targetHash, weight) ==
    /\ pc = "idle"
    /\ IF sourceHash \notin DOMAIN vertices
       THEN EdgeFails(sourceHash, targetHash, weight, ErrVertexNotFound)
       ELSE IF GetEdgeByHashes(sourceHash, targetHash).found
       THEN EdgeFails(sourceHash, targetHash, weight, ErrEdgeAlreadyExists)
       ELSE IF targetHash \in DOMAIN vertices
       THEN CheckCycleAndInsert(sourceHash, targetHash, weight)
       ELSE /\ Size < MaxEdges
            /\ addEdge(sourceHash, targetHash,
                       [Source |-> vertices[sourceHash], Target |-> 0,
                        Weight |-> weight])
            /\ op' = Call("AddEdge", sourceHash, targetHash, weight, Nil)
    /\ NoTraversal
    /\ UNCHANGED <<vertices, isAcyclic>>

WeightedEdgeByHashes(sourceHash, targetHash, weight) ==
    /\ pc = "idle"
    /\ IF sourceHash \notin DOMAIN vertices
       THEN EdgeFails(sourceHash, targetHash, weight, ErrVertexNotFound)
       ELSE IF targetHash \notin DOMAIN vertices
       THEN EdgeFails(sourceHash, targetHash, weight, ErrVertexNotFound)
       ELSE IF GetEdgeByHashes(sourceHash, targetHash).found
       THEN EdgeFails(sourceHash, targetHash, weight, ErrEdgeAlreadyExists)
       ELSE CheckCycleAndInsert(sourceHash, targetHash, weight)
    /\ NoTraversal
    /\ UNCHANGED <<vertices, isAcyclic>>

\* ------------------------------------------------------------ DFSByHash
\* Mutant: a true from the callback does not leave the loop.
TraversalGoesOn(stop) ==
    IF stop
    THEN /\ pc' = pc
         /\ op' = [op EXCEPT !.stopped = TRUE]
    ELSE /\ pc' = "idle"
         /\ op' = [op EXCEPT !.stopped = FALSE]

\* The traversal returns nil: the loop ended or the callback stopped it.
TraversalReturns(stop) ==
    /\ pc' = "idle"
    /\ op' = [op EXCEPT !.stopped = stop]

\* Mutant: only the first neighbour enumerated is pushed.
PushFirstNeighbour(stk, order) ==
    IF order = <<>> THEN stk ELSE Append(stk, order[1])

\* for adjacency := range d.outEdges[currentHash] { stack = append(...) }
PushNeighbours(stk, order) == stk \o order

\* Mutant: the start vertex is not looked up.
DFSByHashNoLookup(startHash) ==
    /\ pc = "idle"
    /\ calls' = <<>>
    /\ queue' = <<>>
    /\ visited' = {}
    /\ op' = Call("DFS", startHash, 0, 0, Nil)
    /\ stack' = <<startHash>>
    /\ pc' = "dfs"
    /\ UNCHANGED <<vertices, edges, outEdges, inEdges, isAcyclic>>

DFSByHash(startHash) ==
    /\ pc = "idle"
    /\ calls' = <<>>
    /\ queue' = <<>>
    /\ visited' = {}
    /\ IF startHash \notin DOMAIN vertices
       THEN /\ op' = Call("DFS", startHash, 0, 0, ErrVertexNotFound)
            /\ stack' = <<>>
            /\ pc' = "idle"
       ELSE /\ op' = Call("DFS", startHash, 0, 0, Nil)
            /\ stack' = <<startHash>>
            /\ pc' = "dfs"
    /\ UNCHANGED <<vertices, edges, outEdges, inEdges, isAcyclic>>

\* One iteration of the loop of DFSByHash, and the loop test after it.
DFSStep ==
    /\ pc = "dfs"
    /\ stack # <<>>
    /\ LET currentHash == stack[Len(stack)]
           rest == SubSeq(stack, 1, Len(stack) - 1)
       IN  IF currentHash \notin visited
           THEN /\ calls' = Append(calls, currentHash)
                /\ \E stop \in BOOLEAN :
                     IF stop
                     THEN /\ stack' = rest
                          /\ visited' = visited
                          /\ TraversalReturns(TRUE)
                     ELSE /\ visited' = visited \cup {currentHash}
                          /\ \E order \in RangeOrders(DOMAIN Inner(outEdges, currentHash)) :
                               stack' = PushNeighbours(rest, order)
                          /\ IF stack' = <<>>
                             THEN TraversalReturns(FALSE)
                             ELSE UNCHANGED <<pc, op>>
           ELSE /\ stack' = rest
                /\ UNCHANGED <<visited, calls>>
                /\ IF rest = <<>>
                   THEN TraversalReturns(FALSE)
                   ELSE UNCHANGED <<pc, op>>
    /\ UNCHANGED <<vertices, edges, outEdges, inEdges, isAcyclic, queue>>

\* ------------------------------------------------------------ BFSByHash
\* Mutant: a neighbour is enqueued without being marked visited.
RECURSIVE EnqueueUnmarked(_, _, _)
EnqueueUnmarked(q, seen, order) ==
    IF order = <<>>
    THEN [queue |-> q, visited |-> seen]
    ELSE IF Head(order) \notin seen
         THEN EnqueueUnmarked(Append(q, Head(order)), seen, Tail(order))
         ELSE EnqueueUnmarked(q, seen, Tail(order))

\* Mutant: a neighbour is put at the front of the queue, not at its end.
RECURSIVE EnqueueAtFront(_, _, _)
EnqueueAtFront(q, seen, order) ==
    IF order = <<>>
    THEN [queue |-> q, visited |-> seen]
    ELSE IF Head(order) \notin seen
         THEN EnqueueAtFront(<<Head(order)>> \o q, seen \cup {Head(order)},
                             Tail(order))
         ELSE EnqueueAtFront(q, seen, Tail(order))

\* for adjacency := range d.outEdges[currentHash] { if !visited { mark; enqueue } }
RECURSIVE EnqueueNeighbours(_, _, _)
EnqueueNeighbours(q, seen, order) ==
    IF order = <<>>
    THEN [queue |-> q, visited |-> seen]
    ELSE IF Head(order) \notin seen
         THEN EnqueueNeighbours(Append(q, Head(order)), seen \cup {Head(order)},
                                Tail(order))
         ELSE EnqueueNeighbours(q, seen, Tail(order))

\* Mutant: the start vertex is enqueued without being marked visited.
BFSByHashStartUnmarked(startHash) ==
    /\ pc = "idle"
    /\ calls' = <<>>
    /\ stack' = <<>>
    /\ visited' = {}
    /\ IF startHash \notin DOMAIN vertices
       THEN /\ op' = Call("BFS", startHash, 0, 0, ErrVertexNotFound)
            /\ queue' = <<>>
            /\ pc' = "idle"
       ELSE /\ op' = Call("BFS", startHash, 0, 0, Nil)
            /\ queue' = <<startHash>>
            /\ pc' = "bfs"
    /\ UNCHANGED <<vertices, edges, outEdges, inEdges, isAcyclic>>

BFSByHash(startHash) ==
    /\ pc = "idle"
    /\ calls' = <<>>
    /\ stack' = <<>>
    /\ IF startHash \notin DOMAIN vertices
       THEN /\ op' = Call("BFS", startHash, 0, 0, ErrVertexNotFound)
            /\ queue' = <<>>
            /\ visited' = {}
            /\ pc' = "idle"
       ELSE /\ op' = Call("BFS", startHash, 0, 0, Nil)
            /\ visited' = {startHash}
            /\ queue' = <<startHash>>
            /\ pc' = "bfs"
    /\ UNCHANGED <<vertices, edges, outEdges, inEdges, isAcyclic>>

\* One iteration of the loop of BFSByHash, and the loop test after it.
BFSStep ==
    /\ pc = "bfs"
    /\ queue # <<>>
    /\ LET currentHash == Head(queue)
           rest == Tail(queue)
       IN  /\ calls' = Append(calls, currentHash)
           /\ \E stop \in BOOLEAN :
                IF stop
                THEN /\ queue' = rest
                     /\ visited' = visited
                     /\ TraversalReturns(TRUE)
                ELSE /\ \E order \in RangeOrders(DOMAIN Inner(outEdges, currentHash)) :
                          LET r == EnqueueNeighbours(rest, visited, order)
                          IN  /\ queue' = r.queue
                              /\ visited' = r.visited
                     /\ IF queue' = <<>>
                        THEN TraversalReturns(FALSE)
                        ELSE UNCHANGED <<pc, op>>
    /\ UNCHANGED <<vertices, edges, outEdges, inEdges, isAcyclic, stack>>

\* -------------------------------------------------------------- GetEdge
\* Mutant: the lookup makes the inner map of a source that has none.
GetEdgeMakesInner(source, target) ==
    /\ pc = "idle"
    /\ op' = CallRet("GetEdge", IntHash(source), IntHash(target), Nil,
                     GetEdgeByHashes(IntHash(source), IntHash(target)))
    /\ edges' = IF IntHash(source) \in DOMAIN edges
                THEN edges
                ELSE Put(edges, IntHash(source), EmptyMap)
    /\ NoTraversal
    /\ UNCHANGED <<vertices, outEdges, inEdges, isAcyclic>>

\* directed.GetEdge: hashes its arguments and looks the edge up.
GetEdge(source, target) ==
    /\ pc = "idle"
    /\ op' = CallRet("GetEdge", IntHash(source), IntHash(target), Nil,
                     GetEdgeByHashes(IntHash(source), IntHash(target)))
    /\ NoTraversal
    /\ UNCHANGED <<vertices, edges, outEdges, inEdges, isAcyclic>>

\* --------------------------------------------------------------- Degree
\* Mutant: only the outgoing edges are counted.
DegreeOutOnly(vertexHash) ==
    IF vertexHash \notin DOMAIN vertices
    THEN [degree |-> 0, err |-> ErrVertexNotFound]
    ELSE [degree |-> Cardinality(DOMAIN Inner(outEdges, vertexHash)), err |-> Nil]

\* Mutant: the neighbours are counted, so a self-loop counts once.
DegreeByNeighbours(vertexHash) ==
    IF vertexHash \notin DOMAIN vertices
    THEN [degree |-> 0, err |-> ErrVertexNotFound]
    ELSE [degree |-> Cardinality(DOMAIN Inner(inEdges, vertexHash)
                                   \cup DOMAIN Inner(outEdges, vertexHash))
                     + Cardinality((DOMAIN Inner(inEdges, vertexHash)
                                      \cap DOMAIN Inner(outEdges, vertexHash))
                                   \ {vertexHash}),
          err |-> Nil]

\* The (int, error) pair DegreeByHash returns.
DegreeByHash(vertexHash) ==
    IF vertexHash \notin DOMAIN vertices
    THEN [degree |-> 0, err |-> ErrVertexNotFound]
    ELSE [degree |-> (IF vertexHash \in DOMAIN inEdges
                      THEN Cardinality(DOMAIN inEdges[vertexHash]) ELSE 0)
                     + (IF vertexHash \in DOMAIN outEdges
                        THEN Cardinality(DOMAIN outEdges[vertexHash]) ELSE 0),
          err |-> Nil]

\* directed.Degree: hashes its argument and counts.
Degree(vertex) ==
    /\ pc = "idle"
    /\ LET r == DegreeByHash(IntHash(vertex))
       IN  op' = CallRet("Degree", IntHash(vertex), 0, r.err, [degree |-> r.degree])
    /\ NoTraversal
    /\ UNCHANGED <<vertices, edges, outEdges, inEdges, isAcyclic>>

\* --------------------------------------------------------- CreatesCycle
\* The pre-check returns (createsCycle, nil).
CycleReturns(createsCycle) ==
    /\ pc' = "idle"
    /\ op' = [op EXCEPT !.ret = [createsCycle |-> createsCycle]]

\* directed.CreatesCycle called on its own: the lookups, the self-loop test
\* and the first push; the loop runs in CycleStep.
CreatesCycle(source, target) ==
    /\ pc = "idle"
    /\ calls' = <<>>
    /\ queue' = <<>>
    /\ visited' = {}
    /\ IF IntHash(source) \notin DOMAIN vertices \/ IntHash(target) \notin DOMAIN vertices
       THEN /\ op' = CallRet("CreatesCycle", IntHash(source), IntHash(target),
                             ErrVertexNotFound, [createsCycle |-> FALSE])
            /\ stack' = <<>>
            /\ pc' = "idle"
       ELSE IF IntHash(source) = IntHash(target)
       THEN /\ op' = CallRet("CreatesCycle", IntHash(source), IntHash(target),
                             Nil, [createsCycle |-> TRUE])
            /\ stack' = <<>>
            /\ pc' = "idle"
       ELSE /\ op' = CallRet("CreatesCycle", IntHash(source), IntHash(target),
                             Nil, NoRet)
            /\ stack' = <<IntHash(source)>>
            /\ pc' = "cycle"
    /\ UNCHANGED <<vertices, edges, outEdges, inEdges, isAcyclic>>

\* Mutant: a vertex found visited is left on the stack.
CycleStepNoPop ==
    /\ pc = "cycle"
    /\ stack # <<>>
    /\ LET currentHash == stack[Len(stack)]
           rest == SubSeq(stack, 1, Len(stack) - 1)
       IN  IF currentHash \notin visited
           THEN IF currentHash = op.targetHash
                THEN /\ stack' = rest
                     /\ visited' = visited
                     /\ CycleReturns(TRUE)
                ELSE /\ visited' = visited \cup {currentHash}
                     /\ \E order \in predecessors(currentHash) :
                          stack' = rest \o order
                     /\ IF stack' = <<>>
                        THEN CycleReturns(FALSE)
                        ELSE UNCHANGED <<pc, op>>
           ELSE UNCHANGED <<stack, visited, pc, op>>
    /\ UNCHANGED <<vertices, edges, outEdges, inEdges, isAcyclic, queue, calls>>

\* One iteration of the loop of CreatesCycleByHashes, and the loop test after
\* it.
CycleStep ==
    /\ pc = "cycle"
    /\ stack # <<>>
    /\ LET currentHash == stack[Len(stack)]
           rest == SubSeq(stack, 1, Len(stack) - 1)
       IN  IF currentHash \notin visited
           THEN IF currentHash = op.targetHash
                THEN /\ stack' = rest
                     /\ visited' = visited
                     /\ CycleReturns(TRUE)
                ELSE /\ visited' = visited \cup {currentHash}
                     /\ \E order \in predecessors(currentHash) :
                          stack' = rest \o order
                     /\ IF stack' = <<>>
                        THEN CycleReturns(FALSE)
                        ELSE UNCHANGED <<pc, op>>
           ELSE /\ stack' = rest
                /\ visited' = visited
                /\ IF rest = <<>>
                   THEN CycleReturns(FALSE)
                   ELSE UNCHANGED <<pc, op>>
    /\ UNCHANGED <<vertices, edges, outEdges, inEdges, isAcyclic, queue, calls>>

\* --------------------------------------------------------- AdjacencyMap
\* One key per vertex, each with the forward index's entries for it.
AdjacencyMap == [v \in DOMAIN vertices |-> Inner(outEdges, v)]

\* ----------------------------------------------------------------- Next
Next ==
    \/ \E value \in Hashes : Vertex(value)
    \/ \E s, t \in Hashes, w \in Weights : WeightedEdgeByHashes(s, t, w)
    \/ \E startHash \in Hashes : DFSByHash(startHash)
    \/ DFSStep
    \/ \E startHash \in Hashes : BFSByHash(startHash)
    \/ BFSStep
    \/ \E source, target \in Hashes : GetEdge(source, target)
    \/ \E vertex \in Hashes : Degree(vertex)
    \/ \E source, target \in Hashes : CreatesCycle(source, target)
    \/ CycleStep

Spec == Init /\ [][Next]_vars

\* The breadth-first traversal on a wider graph: four vertex values, edges of
\* weight 0, enforcement off (so that every graph can be built).
BFSHashes == {1, 2, 3, 4}

InitBFS == Init /\ ~isAcyclic

NextBFS ==
    \/ \E value \in BFSHashes : Vertex(value)
    \/ \E s, t \in BFSHashes : WeightedEdgeByHashes(s, t, 0)
    \/ \E startHash \in BFSHashes : BFSByHash(startHash)
    \/ BFSStep

SpecBFS == InitBFS /\ [][NextBFS]_vars

\* Every call runs to completion on the caller's thread: a loop that can take
\* another iteration takes it.
SpecFair ==
    /\ Spec
    /\ WF_vars(DFSStep)
    /\ WF_vars(BFSStep)
    /\ WF_vars(CycleStep)

\* ============================================================== claims
\* The vertices reachable from the set S along the pairs of R, S included.
RECURSIVE ReachFrom(_, _)
ReachFrom(S, R) ==
    LET N == S \cup {p[2] : p \in {q \in R : q[1] \in S}}
    IN  IF N = S THEN S ELSE ReachFrom(N, R)

Forward == Pairs(outEdges)
Successors(v) == {p[2] : p \in {q \in Forward : q[1] = v}}
\* t reaches s along a path of forward edges (the empty path when t = s).
Reaches(t, s) == s \in ReachFrom({t}, Forward)
\* v lies on a directed cycle: a non-empty path of forward edges from v to v.
OnCycle(v) == v \in ReachFrom(Successors(v), Forward)
Count(seq, v) == Cardinality({i \in DOMAIN seq : seq[i] = v})

\* C1: with acyclic enforcement on, the stored graph never holds a directed
\* cycle (no vertex has a non-empty forward path back to itself), whatever
\* calls were made and whether they failed.
C1_NoCycleWhenAcyclic == isAcyclic => \A v \in Hashes : ~OnCycle(v)

\* A cycle through three vertices was refused with two edges stored.
C1_Witness ==
    /\ isAcyclic
    /\ op.call = "AddEdge" /\ op.err = ErrEdgeCreatesCycle
    /\ op.sourceHash # op.targetHash
    /\ Size >= 2
    /\ ~GetEdgeByHashes(op.targetHash, op.sourceHash).found

\* C2 (pre-check): for existing vertices the pre-check reports a cycle, under
\* every enumeration order, exactly when source = target or target reaches
\* source along forward edges.
C2_PreCheckExact ==
    \A s, t \in DOMAIN vertices :
        CreatesCycleByHashes(s, t) =
            {[createsCycle |-> (s = t \/ Reaches(t, s)), err |-> Nil]}

\* C2 (addEdge): with enforcement on, an addEdge on existing vertices with no
\* (source, target) edge fails with WouldCreateCycle in exactly those cases
\* and succeeds in all others.
C2_AddEdgeOutcome ==
    \A s, t \in DOMAIN vertices :
        (/\ isAcyclic
         /\ pc = "idle"
         /\ op'.call = "AddEdge"
         /\ op'.sourceHash = s
         /\ op'.targetHash = t
         /\ ~GetEdgeByHashes(s, t).found)
        => IF s = t \/ Reaches(t, s)
           THEN op'.err = ErrEdgeCreatesCycle
           ELSE op'.err = Nil /\ GetEdgeByHashes(s, t)'.found

\* C2: the pre-check is exact in every state, and every addEdge step under
\* enforcement has the outcome it dictates.
C2_CycleCheckExact == []C2_PreCheckExact /\ [][C2_AddEdgeOutcome]_vars

\* An edge was refused because its target reaches its source in two hops,
\* and one was accepted although its source reaches its target.
C2_Witness ==
    /\ isAcyclic
    /\ op.call = "AddEdge" /\ op.err = ErrEdgeCreatesCycle
    /\ \E m \in Hashes \ {op.sourceHash, op.targetHash} :
          /\ GetEdgeByHashes(op.targetHash, m).found
          /\ GetEdgeByHashes(m, op.sourceHash).found
          /\ ~GetEdgeByHashes(op.targetHash, op.sourceHash).found

\* C3: a second add of a vertex whose identifier is already in the graph
\* fails with VertexAlreadyExists and leaves the stored vertices unchanged.
C3_SecondAddRejected ==
    [][(op'.call = "Vertex" /\ op'.sourceHash \in DOMAIN vertices)
         => (op'.err = ErrVertexAlreadyExists /\ vertices' = vertices)]_vars

\* C4: a failed addEdge (missing endpoint, duplicate, cycle) leaves the vertex
\* set and the edge, forward and reverse indices as they were.
C4_FailedAddEdgeFrame ==
    [][(pc = "idle" /\ op'.call = "AddEdge" /\ op'.err # Nil)
         => UNCHANGED graph]_vars

\* A cycle-creating edge was refused on a graph that holds edges.
C4_Witness ==
    /\ op.call = "AddEdge" /\ op.err = ErrEdgeCreatesCycle
    /\ Size = MaxEdges

\* C5: the edge store, the forward index and the reverse index register the
\* same edges: (s,t) is under outEdges[s][t] iff it is under inEdges[t][s] iff
\* it is under edges[s][t], with the same source, target and weight.
C5_Lockstep ==
    \A s, t \in Hashes :
        /\ <<s, t>> \in Pairs(outEdges) <=> <<t, s>> \in Pairs(inEdges)
        /\ <<s, t>> \in Pairs(outEdges) <=> <<s, t>> \in Pairs(edges)
        /\ <<s, t>> \in Pairs(outEdges) =>
              /\ outEdges[s][t] = inEdges[t][s]
              /\ outEdges[s][t] = edges[s][t]
              /\ IntHash(outEdges[s][t].Source) = s
              /\ IntHash(outEdges[s][t].Target) = t

\* Two edges into one vertex and one edge back out of it are stored.
C5_Witness ==
    \E a, b, c \in Hashes :
        /\ a # b /\ b # c /\ a # c
        /\ {<<a, c>>, <<b, c>>, <<c, a>>} \subseteq Pairs(outEdges)
        /\ outEdges[a][c].Weight # outEdges[b][c].Weight

\* C6: after a successful addEdge(s,t,w), getEdge(s,t) returns the edge
\* (s,t,w); an edge getEdge returns is returned unchanged after every step;
\* and an addEdge(s,t) on a stored pair fails with EdgeAlreadyExists.
C6_EdgeKept ==
    [][\A s, t \in Hashes :
         /\ (pc = "idle" /\ op'.call = "AddEdge" /\ op'.err = Nil
                /\ op'.sourceHash = s /\ op'.targetHash = t)
            => GetEdgeByHashes(s, t)' =
                 [found |-> TRUE,
                  edge |-> [Source |-> s, Target |-> t, Weight |-> op'.weight]]
         /\ GetEdgeByHashes(s, t).found =>
              /\ GetEdgeByHashes(s, t)' = GetEdgeByHashes(s, t)
              /\ (pc = "idle" /\ op'.call = "AddEdge"
                     /\ op'.sourceHash = s /\ op'.targetHash = t)
                 => op'.err = ErrEdgeAlreadyExists]_vars

\* A second addEdge with another weight than the stored edge's was refused.
C6_Witness ==
    /\ op.call = "AddEdge" /\ op.err = ErrEdgeAlreadyExists
    /\ GetEdgeByHashes(op.sourceHash, op.targetHash).found
    /\ GetEdgeByHashes(op.sourceHash, op.targetHash).edge.Weight # op.weight

\* C7: an addEdge whose source or target is not a vertex fails with
\* VertexNotFound, with enforcement on or off and also when source = target.
\* (addEdge leaves the vertex set alone, so the vertices after the call are
\* those before it.)
C7_MissingEndpoint ==
    (/\ pc = "idle"
     /\ op.call = "AddEdge"
     /\ (op.sourceHash \notin DOMAIN vertices \/ op.targetHash \notin DOMAIN vertices))
    => op.err = ErrVertexNotFound

\* With enforcement on, a self-loop on a missing vertex was refused.
C7_Witness ==
    /\ isAcyclic
    /\ pc = "idle"
    /\ op.call = "AddEdge" /\ op.err = ErrVertexNotFound
    /\ op.sourceHash = op.targetHash
    /\ Size > 0

\* C8: a DFS that returned without the callback signalling stop invoked the
\* callback once for every vertex reachable from start (start included) and
\* never for any other vertex.
C8_DFSVisitsReachableOnce ==
    (pc = "idle" /\ op.call = "DFS" /\ op.err = Nil /\ ~op.stopped)
    => \A v \in Hashes :
         Count(calls, v) = IF Reaches(op.sourceHash, v) THEN 1 ELSE 0

\* A DFS ran to its end from a vertex on a cycle through three vertices.
C8_Witness ==
    /\ pc = "idle" /\ op.call = "DFS" /\ op.err = Nil /\ ~op.stopped
    /\ OnCycle(op.sourceHash)
    /\ Len(calls) = 3
    /\ Size = 3

\* C9: a BFS that returned without the callback signalling stop invoked the
\* callback once for every vertex reachable from start (start included) and
\* never for any other vertex.
C9_BFSVisitsReachableOnce ==
    (pc = "idle" /\ op.call = "BFS" /\ op.err = Nil /\ ~op.stopped)
    => \A v \in Hashes :
         Count(calls, v) = IF Reaches(op.sourceHash, v) THEN 1 ELSE 0

\* A BFS ran to its end on a graph where a vertex is reached along two paths.
C9_Witness ==
    /\ pc = "idle" /\ op.call = "BFS" /\ op.err = Nil /\ ~op.stopped
    /\ \E m, v \in Hashes \ {op.sourceHash} :
          /\ m # v
          /\ {<<op.sourceHash, m>>, <<op.sourceHash, v>>, <<m, v>>} \subseteq Forward
    /\ Len(calls) = 3

\* C10: the adjacency view has one key per vertex of the graph, and each key
\* maps to exactly the targets of the edges stored from that vertex, with the
\* stored edge.
C10_AdjacencyMapExact ==
    /\ DOMAIN AdjacencyMap = DOMAIN vertices
    /\ \A v \in DOMAIN vertices :
         /\ DOMAIN AdjacencyMap[v] = {t \in Hashes : <<v, t>> \in Pairs(edges)}
         /\ \A t \in DOMAIN AdjacencyMap[v] : AdjacencyMap[v][t] = edges[v][t]

\* One vertex has two neighbours and another has none.
C10_Witness ==
    \E u, v \in DOMAIN vertices :
        /\ Cardinality(DOMAIN AdjacencyMap[u]) = 2
        /\ AdjacencyMap[v] = EmptyMap

\* The edges stored out of v and into v.
OutOf(v) == {p \in Pairs(edges) : p[1] = v}
InTo(v) == {p \in Pairs(edges) : p[2] = v}

\* C11: degree(id) of an existing vertex is the number of its outgoing edges
\* plus the number of its incoming edges, and degree(id) of an absent vertex
\* fails with NotFound; a Degree call returns just that.
C11_DegreeExact ==
    /\ \A v \in Hashes :
         IF v \in DOMAIN vertices
         THEN DegreeByHash(v) =
                [degree |-> Cardinality(OutOf(v)) + Cardinality(InTo(v)), err |-> Nil]
         ELSE DegreeByHash(v).err = ErrVertexNotFound
    /\ op.call = "Degree" =>
         /\ op.err = DegreeByHash(op.sourceHash).err
         /\ op.ret = [degree |-> DegreeByHash(op.sourceHash).degree]

\* Degree returned 2 for a vertex with one incoming and one outgoing edge.
C11_Witness ==
    /\ op.call = "Degree" /\ op.err = Nil /\ op.ret = [degree |-> 2]
    /\ \E a, b \in Hashes \ {op.sourceHash} :
          /\ OutOf(op.sourceHash) = {<<op.sourceHash, b>>}
          /\ InTo(op.sourceHash) = {<<a, op.sourceHash>>}

\* C12: a DFS or BFS whose start is not a vertex fails with NotFound, runs no
\* loop and never invokes the visit callback.
C12_TraversalStartMissing ==
    (op.call \in {"DFS", "BFS"} /\ op.sourceHash \notin DOMAIN vertices)
    => /\ op.err = ErrVertexNotFound
       /\ pc = "idle"
       /\ calls = <<>>
       /\ ~op.stopped

\* A BFS was refused on a graph that holds vertices and edges.
C12_Witness ==
    /\ op.call = "BFS" /\ op.err = ErrVertexNotFound
    /\ op.sourceHash \notin DOMAIN vertices
    /\ Size > 0

\* C13 (the stopping step): the step in which the callback returns true ends
\* the traversal at once: it returns nil, the callback was invoked just that
\* once more, nothing is marked visited and nothing is pushed or enqueued
\* (the stack or queue only lost the vertex taken from it).
C13_StopStep ==
    (op'.stopped /\ ~op.stopped)
    => /\ pc \in {"dfs", "bfs"}
       /\ pc' = "idle"
       /\ op'.err = Nil
       /\ visited' = visited
       /\ pc = "dfs" => /\ stack' = SubSeq(stack, 1, Len(stack) - 1)
                        /\ calls' = Append(calls, stack[Len(stack)])
       /\ pc = "bfs" => /\ queue' = Tail(queue)
                        /\ calls' = Append(calls, Head(queue))

\* C13 (after the stop): no step of a stopped traversal invokes the callback.
C13_NoCallAfterStop == op.stopped => Len(calls') <= Len(calls)

\* C13: once the visit callback has returned true no loop is running, the
\* callback is not invoked again, and the stopping step is as above.
C13_StopsAtOnce ==
    /\ [](op.stopped => pc = "idle")
    /\ [][C13_StopStep /\ C13_NoCallAfterStop]_vars

\* A BFS was stopped at its second vertex with a vertex left in the queue.
C13_Witness ==
    /\ op.call = "BFS" /\ op.stopped /\ op.err = Nil
    /\ Len(calls) = 2
    /\ queue # <<>>

\* C14: every DFS, BFS and cycle pre-check that entered its loop leaves it,
\* on every graph (cycles and self-loops included) and whether or not the
\* callback ever signals stop.
C14_LoopsTerminate ==
    /\ (pc = "dfs") ~> (pc = "idle")
    /\ (pc = "bfs") ~> (pc = "idle")
    /\ (pc = "cycle") ~> (pc = "idle")
\* A DFS ran to its end, never stopped, from a vertex with a self-loop that
\* also lies on a cycle through another vertex.
C14_Witness ==
    /\ pc = "idle" /\ op.call = "DFS" /\ op.err = Nil /\ ~op.stopped
    /\ <<op.sourceHash, op.sourceHash>> \in Forward
    /\ \E m \in Hashes \ {op.sourceHash} :
          {<<op.sourceHash, m>>, <<m, op.sourceHash>>} \subseteq Forward
\* The set of a sequence's elements, and whether it repeats none.
Elems(seq) == {seq[i] : i \in DOMAIN seq}
NoRepeat(seq) == \A i, j \in DOMAIN seq : i # j => seq[i] # seq[j]

\* C15: at every step of a BFS (and at its return) every vertex in the queue
\* is marked visited, the marked vertices are exactly those enqueued so far
\* (the dequeued ones, which the callback saw, and the queued ones), and no
\* vertex was enqueued twice.
C15_MarkedWhenEnqueued ==
    (op.call = "BFS" /\ op.err = Nil)
    => /\ Elems(queue) \subseteq visited
       /\ visited = Elems(calls \o queue)
       /\ NoRepeat(calls \o queue)

\* A BFS is running with two vertices queued, one of them reached along two
\* edges.
C15_Witness ==
    /\ pc = "bfs"
    /\ Len(queue) = 2
    /\ Len(calls) = 1
    /\ {<<queue[1], queue[2]>>, <<calls[1], queue[2]>>} \subseteq Forward

\* C16: every edge held in the edge store, the forward index or the reverse
\* index has its source and its target in the vertex set, as key and as the
\* stored edge's endpoints.
C16_EndpointsExist ==
    \A m \in {edges, outEdges, inEdges} :
        /\ DOMAIN m \subseteq DOMAIN vertices
        /\ \A a \in DOMAIN m :
             /\ DOMAIN m[a] \subseteq DOMAIN vertices
             /\ \A b \in DOMAIN m[a] :
                  /\ IntHash(m[a][b].Source) \in DOMAIN vertices
                  /\ IntHash(m[a][b].Target) \in DOMAIN vertices

\* Edges are stored between two vertices while the third identifier is absent
\* and an edge to it was refused.
C16_Witness ==
    /\ Size >= 2
    /\ Cardinality(DOMAIN vertices) = 2
    /\ op.call = "AddEdge" /\ op.err = ErrVertexNotFound
    /\ op.sourceHash \in DOMAIN vertices
\* C17 (the step): with enforcement off, an addEdge on existing vertices with
\* no (source, target) edge succeeds, self-loops and cycle-closing edges
\* included, and registers the edge in the forward and the reverse index.
C17_AddEdgeStep ==
    \A s, t \in DOMAIN vertices :
        (/\ ~isAcyclic
         /\ pc = "idle"
         /\ op'.call = "AddEdge"
         /\ op'.sourceHash = s
         /\ op'.targetHash = t
         /\ ~GetEdgeByHashes(s, t).found)
        => /\ op'.err = Nil
           /\ <<s, t>> \in Pairs(outEdges)'
           /\ <<t, s>> \in Pairs(inEdges)'
           /\ outEdges'[s][t] = [Source |-> s, Target |-> t, Weight |-> op'.weight]
           /\ inEdges'[t][s] = outEdges'[s][t]

\* C17: with enforcement off no addEdge fails with WouldCreateCycle, and
\* every addEdge step is as above.
C17_NoCycleCheckWhenOff ==
    /\ []((~isAcyclic /\ op.call = "AddEdge") => op.err # ErrEdgeCreatesCycle)
    /\ [][C17_AddEdgeStep]_vars

\* With enforcement off an edge was added whose target already reached its
\* source, on a graph that holds a self-loop.
C17_Witness ==
    /\ ~isAcyclic
    /\ op.call = "AddEdge" /\ op.err = Nil
    /\ op.sourceHash # op.targetHash
    /\ Reaches(op.targetHash, op.sourceHash)
    /\ \E v \in Hashes : <<v, v>> \in Forward /\ <<v, v>> \in Pairs(inEdges)
\* C18: every step of a call to the cycle pre-check, getEdge, degree, DFS or
\* BFS, whatever it returns, leaves the vertex set and the edge, forward and
\* reverse indices as they were, down to their key sets (no empty inner map
\* appears for an identifier that was looked up).
C18_ReadOnlyFrame ==
    [][op'.call \in {"CreatesCycle", "GetEdge", "Degree", "DFS", "BFS"}
         => /\ UNCHANGED graph
            /\ \A m \in {edges, outEdges, inEdges} : DOMAIN m' = DOMAIN m]_vars

\* getEdge found nothing for a source that has no inner map, on a graph that
\* holds edges.
C18_Witness ==
    /\ op.call = "GetEdge" /\ ~op.ret.found
    /\ op.sourceHash \in DOMAIN vertices
    /\ op.sourceHash \notin DOMAIN edges
    /\ Size > 0
\* The number of edges on a shortest forward path from the set S (at
\* distance n) to v; -1 when there is none.
RECURSIVE DistFrom(_, _, _)
DistFrom(S, v, n) ==
    IF v \in S
    THEN n
    ELSE LET N == S \cup {p[2] : p \in {q \in Forward : q[1] \in S}}
         IN  IF N = S THEN -1 ELSE DistFrom(N, v, n + 1)

Dist(start, v) == DistFrom({start}, v, 0)

\* C19: in every BFS, running, stopped or finished, the callback was invoked
\* in non-decreasing order of hop distance from the start: a vertex visited
\* earlier is no farther from start than one visited later.
C19_BFSLevelOrder ==
    op.call = "BFS"
    => \A i, j \in DOMAIN calls :
         i < j => /\ Dist(op.sourceHash, calls[i]) >= 0
                  /\ Dist(op.sourceHash, calls[i]) <= Dist(op.sourceHash, calls[j])

\* A BFS visited four vertices: two at distance 1, then one at distance 2
\* that is a neighbour of the first of them.
C19_Witness ==
    /\ pc = "idle" /\ op.call = "BFS" /\ ~op.stopped
    /\ Len(calls) = 4
    /\ Dist(op.sourceHash, calls[2]) = 1
    /\ Dist(op.sourceHash, calls[3]) = 1
    /\ Dist(op.sourceHash, calls[4]) = 2
    /\ <<calls[2], calls[4]>> \in Forward
\* The sum of DegreeByHash over the vertices of S.
RECURSIVE SumDegrees(_)
SumDegrees(S) ==
    IF S = {}
    THEN 0
    ELSE LET v == CHOOSE x \in S : TRUE
         IN  DegreeByHash(v).degree + SumDegrees(S \ {v})

\* C20: the degrees of all vertices add up to twice the number of stored
\* edges, and a vertex whose only edge is a self-loop has degree 2.
C20_DegreeSum ==
    /\ SumDegrees(DOMAIN vertices) = 2 * Size
    /\ \A v \in DOMAIN vertices :
         (OutOf(v) = {<<v, v>>} /\ InTo(v) = {<<v, v>>})
           => DegreeByHash(v).degree = 2

\* Degree was asked of a vertex that has a self-loop and another edge.
C20_Witness ==
    /\ op.call = "Degree" /\ op.err = Nil
    /\ <<op.sourceHash, op.sourceHash>> \in Pairs(edges)
    /\ op.ret.degree >= 3
    /\ Size >= 2

====
